---------------------------- MODULE Spec2Model ----------------------------
(***************************************************************************)
(* A model of ebook_organizer.py: format-dispatched extraction, the        *)
(* single-item and batch LLM categorizers, the category registry and the   *)
(* file placement of organize_ebooks.                                      *)
(*                                                                         *)
(* Strings are sequences of tokens.  A token is one character ("/", ":",   *)
(* "\\", " ", a letter) or an atomic piece of text the code only ever      *)
(* treats as a whole: a line prefix ("Title:"), a placeholder ("{title}"), *)
(* a file extension (".epub"), the separator " - ", a batch tag.           *)
(***************************************************************************)
EXTENDS Naturals, Sequences, FiniteSets, TLC

VARIABLES
    call,                 \* the function call under check: fn, arg, done, ret
    additional_instructions,  \* organize_ebooks' additional_instructions argument
    pc,                   \* position in organize_ebooks
    disk,                 \* the files os.walk(ebook_directory) yields, in walk order
    out_tree,             \* the directories that exist, as normalised paths
    out_files,            \* the copies that exist: destination path and source path
    batch_size,           \* organize_ebooks' batch_size argument
    existing_categories,  \* the registry: a list of category strings
    ebook_files,          \* the discovered ebook paths
    todo,                 \* index into ebook_files of the next file / batch
    batch_results,        \* results of the current batch not yet handled
    organized_files,      \* the returned list
    history               \* log of registrations, copies and LLM calls

vars == <<call, additional_instructions, pc, disk, out_tree, out_files, batch_size, existing_categories,
          ebook_files, todo, batch_results, organized_files, history>>

runVars == <<additional_instructions, pc, disk, out_tree, out_files, batch_size, existing_categories,
             ebook_files, todo, batch_results, organized_files, history>>

-----------------------------------------------------------------------------
(* Bounds *)

MaxFiles == 3       \* files on the disk of one run
MaxSegments == 2    \* blocks / stray lines of one batch response
MaxBatch == 2       \* records of one process_batch call under check

-----------------------------------------------------------------------------
(* Python's str operations on token sequences *)

RECURSIVE Concat(_)
\* "".join(seq of strings)
Concat(ss) == IF ss = <<>> THEN <<>> ELSE Head(ss) \o Concat(Tail(ss))

\* s.replace(a, b) for single tokens a, b
ReplaceChar(s, a, b) == [i \in 1..Len(s) |-> IF s[i] = a THEN b ELSE s[i]]

\* s.replace(tok, val): every occurrence of the token by the string val
ReplaceTok(s, tok, val) ==
    Concat([i \in 1..Len(s) |-> IF s[i] = tok THEN val ELSE <<s[i]>>])

RECURSIVE LStrip(_)
LStrip(s) == IF s # <<>> /\ Head(s) = " " THEN LStrip(Tail(s)) ELSE s

RECURSIVE RStrip(_)
RStrip(s) == IF s # <<>> /\ s[Len(s)] = " " THEN RStrip(SubSeq(s, 1, Len(s) - 1)) ELSE s

\* s.strip()
Strip(s) == RStrip(LStrip(s))

\* x or y, on strings
Or(x, y) == IF x # <<>> THEN x ELSE y

\* tok in s
Contains(s, tok) == \E i \in 1..Len(s) : s[i] = tok

\* index of the first / last occurrence of tok in s, 0 when there is none
FirstIndex(s, tok) ==
    IF Contains(s, tok) THEN CHOOSE i \in 1..Len(s) : s[i] = tok /\ \A j \in 1..(i - 1) : s[j] # tok
    ELSE 0

LastIndex(s, tok) ==
    IF Contains(s, tok) THEN CHOOSE i \in 1..Len(s) : s[i] = tok /\ \A j \in (i + 1)..Len(s) : s[j] # tok
    ELSE 0

\* s.split(tok, 1)
Split1(s, tok) ==
    IF Contains(s, tok)
    THEN <<SubSeq(s, 1, FirstIndex(s, tok) - 1), SubSeq(s, FirstIndex(s, tok) + 1, Len(s))>>
    ELSE <<s>>

ExtTokens == {".pdf", ".PDF", ".epub", ".EPUB", ".mobi", ".azw3", ".txt"}

\* token.lower(), for the extension tokens
LowerTok(t) == CASE t = ".PDF" -> ".pdf" [] t = ".EPUB" -> ".epub" [] OTHER -> t

\* os.path.basename(p)
basename(p) == SubSeq(p, LastIndex(p, "/") + 1, Len(p))

\* os.path.splitext(p)[1]
splitext1(p) ==
    IF Len(basename(p)) > 1 /\ p[Len(p)] \in ExtTokens THEN <<p[Len(p)]>> ELSE <<>>

\* s.lower(), for an extension
lower(s) == [i \in 1..Len(s) |-> LowerTok(s[i])]

\* os.path.join(a, b)
join(a, b) ==
    IF b # <<>> /\ Head(b) = "/" THEN b
    ELSE IF a = <<>> \/ a[Len(a)] = "/" THEN a \o b
    ELSE a \o <<"/">> \o b

-----------------------------------------------------------------------------
(* The files of the input directory *)

InDirs == {<<"in">>, <<"in", "/", "s">>}
Stems == {<<"D">>, <<"D", " - ", "H">>, <<"D", " - ", "H", " - ", "K">>}
MetaTitles == {<<>>, <<"D", "u", "n", "e">>}
MetaAuthors == {<<>>, <<"F", "H">>}

\* A file: its path, the Title/Author its metadata holds and whether the
\* format library can read it.
AllFiles ==
    {[path |-> d \o <<"/">> \o s \o <<e>>, title |-> t, author |-> a, readable |-> r] :
        d \in InDirs, s \in Stems, e \in ExtTokens,
        t \in MetaTitles, a \in MetaAuthors, r \in BOOLEAN}

Raised == [raised |-> TRUE]
Returned(v) == [raised |-> FALSE, value |-> v]

\* extract_pdf_data: no try/except, a failure of the loader propagates
extract_pdf_data(f) ==
    IF ~f.readable THEN Raised
    ELSE Returned([title |-> f.title, author |-> f.author, extracted_text |-> <<"text">>])

\* extract_epub_data: a failure is caught and gives empty title and author
extract_epub_data(f) ==
    IF ~f.readable
    THEN Returned([title |-> <<>>, author |-> <<>>,
                   extracted_text |-> <<"Error processing file: ", "e">>])
    ELSE Returned([title |-> f.title, author |-> f.author, extracted_text |-> <<"text">>])

\* filename.rsplit('.', 1)[0].split(' - ', 1)
FilenameParts(p) ==
    Split1(IF splitext1(p) # <<>> THEN SubSeq(basename(p), 1, Len(basename(p)) - 1)
           ELSE basename(p), " - ")

extract_mobi_azw3_data(f) ==
    LET parts == FilenameParts(f.path)
    IN Returned([title |-> parts[1],
                 author |-> IF Len(parts) > 1 THEN parts[2] ELSE <<"Unknown">>,
                 extracted_text |-> <<"Limited metadata extraction for ">> \o basename(f.path)])

extract_ebook_data(f) ==
    LET file_ext == lower(splitext1(f.path))
    IN IF file_ext = <<".pdf">> THEN extract_pdf_data(f)
       ELSE IF file_ext = <<".epub">> THEN extract_epub_data(f)
       ELSE IF file_ext \in {<<".mobi">>, <<".azw3">>} THEN extract_mobi_azw3_data(f)
       ELSE Returned([title |-> basename(f.path), author |-> <<"Unknown">>,
                      extracted_text |-> <<"Unsupported file format: ">> \o file_ext])

-----------------------------------------------------------------------------
(* LLM responses: a response is a sequence of lines, a line a string *)

None == <<"None">>            \* a key the dict does not hold, an unset local
Unknown == <<"Unknown">>
Uncategorized == <<"Uncategorized">>
NoSummary == <<"No summary available">>

\* line.startswith(prefix), for the prefix tokens
StartsWith(line, prefix) == line # <<>> /\ Head(line) = prefix

\* line[len(prefix):].strip() and line.split(":", 1)[1].strip()
ValueOf(line) == Strip(Tail(line))

\* the first loop of generate_ebook_dict: the last Filename:/Format: line
RECURSIVE ScanFilename(_, _)
ScanFilename(lines, filename_format) ==
    IF lines = <<>> THEN filename_format
    ELSE ScanFilename(Tail(lines),
            IF StartsWith(Head(lines), "Filename:") \/ StartsWith(Head(lines), "Format:")
            THEN ValueOf(Head(lines)) ELSE filename_format)

Min(a, b) == IF a < b THEN a ELSE b

RECURSIVE ScanFields_FirstWins(_, _)
\* (mutant) the first line with a prefix wins
ScanFields_FirstWins(lines, acc) ==
    IF lines = <<>> THEN acc
    ELSE LET line == lines[Len(lines)]
         IN ScanFields_FirstWins(SubSeq(lines, 1, Len(lines) - 1),
                IF StartsWith(line, "Title:") THEN [acc EXCEPT !.title = ValueOf(line)]
                ELSE IF StartsWith(line, "Author:") THEN [acc EXCEPT !.author = ValueOf(line)]
                ELSE IF StartsWith(line, "Year:") THEN [acc EXCEPT !.year = ValueOf(line)]
                ELSE IF StartsWith(line, "Summary:") THEN [acc EXCEPT !.summary = ValueOf(line)]
                ELSE IF StartsWith(line, "Category:") THEN [acc EXCEPT !.category = ValueOf(line)]
                ELSE acc)

\* the second loop of generate_ebook_dict
RECURSIVE ScanFields(_, _)
ScanFields(lines, acc) ==
    IF lines = <<>> THEN acc
    ELSE LET line == Head(lines)
         IN ScanFields(Tail(lines),
                IF StartsWith(line, "Title:") THEN [acc EXCEPT !.title = ValueOf(line)]
                ELSE IF StartsWith(line, "Author:") THEN [acc EXCEPT !.author = ValueOf(line)]
                ELSE IF StartsWith(line, "Year:") THEN [acc EXCEPT !.year = ValueOf(line)]
                ELSE IF StartsWith(line, "Summary:") THEN [acc EXCEPT !.summary = ValueOf(line)]
                ELSE IF StartsWith(line, "Category:") THEN [acc EXCEPT !.category = ValueOf(line)]
                ELSE acc)

\* generate_ebook_dict(ebook_path, ...), given the text the LLM answers with
generate_ebook_dict(f, response) ==
    LET extracted == extract_ebook_data(f)
    IN IF extracted.raised THEN Raised
       ELSE LET ebook_data == extracted.value
                filename_format == ScanFilename(response, None)
                got == ScanFields(response,
                          [title |-> <<>>, author |-> <<>>, year |-> None,
                           summary |-> <<>>, category |-> <<>>])
            IN Returned(
                [title |-> Or(got.title, ebook_data.title),
                 author |-> Or(got.author, ebook_data.author),
                 year |-> IF got.year # None THEN got.year ELSE Unknown,
                 summary |-> got.summary,
                 category |-> got.category,
                 original_path |-> f.path,
                 filename_format |-> IF filename_format # None /\ filename_format # <<>>
                                     THEN filename_format ELSE None])

\* the llm.invoke calls of one generate_ebook_dict call: one, after the
\* extraction returned
generate_llm_calls(f) ==
    IF extract_ebook_data(f).raised THEN <<>>
    ELSE << [fn |-> "generate_ebook_dict", paths |-> <<f.path>>] >>

\* the categories argument: the example main categories
ExampleCategories == << <<"Fiction">>, <<"Technology">> >>

\* the categorization step of generate_ebook_dict's prompt: what it lists
generate_prompt(categories, use_default_categories, existing) ==
    IF use_default_categories THEN [lists |-> "examples", listed |-> categories]
    ELSE IF existing # <<>> THEN [lists |-> "existing", listed |-> existing]
    ELSE [lists |-> "nothing", listed |-> <<>>]

PromptLimit == 10   \* categories[:10], existing_categories[:10]

\* (mutant) the batch prompt lists the whole of the existing categories
batch_prompt_Untruncated(categories, use_default_categories, existing) ==
    IF use_default_categories
    THEN [lists |-> "examples", listed |-> SubSeq(categories, 1, Min(PromptLimit, Len(categories)))]
    ELSE IF existing # <<>> THEN [lists |-> "existing", listed |-> existing]
    ELSE [lists |-> "nothing", listed |-> <<>>]

\* the categorization step of process_batch's prompt: what it lists
batch_prompt(categories, use_default_categories, existing) ==
    IF use_default_categories
    THEN [lists |-> "examples", listed |-> SubSeq(categories, 1, Min(PromptLimit, Len(categories)))]
    ELSE IF existing # <<>>
    THEN [lists |-> "existing", listed |-> SubSeq(existing, 1, Min(PromptLimit, Len(existing)))]
    ELSE [lists |-> "nothing", listed |-> <<>>]

StartTags == {"---BOOK 1 START---", "---BOOK 7 START---"}
EndTags == {"---BOOK 1 END---", "---BOOK 2 END---"}

IsStart(line) == Len(line) = 1 /\ line[1] \in StartTags
IsEnd(line) == Len(line) = 1 /\ line[1] \in EndTags

\* section.strip().split('\n') for the text between two tag lines
IsBlank(line) == \A i \in 1..Len(line) : line[i] = " "

RECURSIVE DropBlankHead(_)
DropBlankHead(lines) ==
    IF lines # <<>> /\ IsBlank(Head(lines)) THEN DropBlankHead(Tail(lines)) ELSE lines

RECURSIVE DropBlankTail(_)
DropBlankTail(lines) ==
    IF lines # <<>> /\ IsBlank(lines[Len(lines)])
    THEN DropBlankTail(SubSeq(lines, 1, Len(lines) - 1)) ELSE lines

SectionLines(section) ==
    LET kept == DropBlankTail(DropBlankHead(section))
        n == Len(kept)
    IN IF n = 0 THEN << <<>> >>
       ELSE [i \in 1..n |->
                IF i = 1 /\ i = n THEN Strip(kept[i])
                ELSE IF i = 1 THEN LStrip(kept[i])
                ELSE IF i = n THEN RStrip(kept[i])
                ELSE kept[i]]

\* (mutant) a greedy (.*): one section from the first start tag to the last end tag
BookSections_Greedy(lines) ==
    LET starts == {i \in 1..Len(lines) : IsStart(lines[i])}
        first == CHOOSE i \in starts : \A k \in starts : i <= k
        ends == {j \in 1..Len(lines) : IsEnd(lines[j]) /\ starts # {} /\ j > first}
        last == CHOOSE j \in ends : \A k \in ends : k <= j
    IN IF starts = {} \/ ends = {} THEN <<>> ELSE <<SubSeq(lines, first + 1, last - 1)>>

\* re.findall(r'---BOOK \d+ START---(.*?)---BOOK \d+ END---', response, re.DOTALL)
\* on a response whose tags stand on lines of their own: leftmost start tag,
\* then the nearest end tag after it, then on from there.
RECURSIVE BookSections(_)
BookSections(lines) ==
    IF ~\E i \in 1..Len(lines) : IsStart(lines[i]) THEN <<>>
    ELSE LET i == CHOOSE k \in 1..Len(lines) :
                     IsStart(lines[k]) /\ \A m \in 1..(k - 1) : ~IsStart(lines[m])
         IN IF ~\E j \in (i + 1)..Len(lines) : IsEnd(lines[j]) THEN <<>>
            ELSE LET j == CHOOSE k \in (i + 1)..Len(lines) :
                             IsEnd(lines[k]) /\ \A m \in (i + 1)..(k - 1) : ~IsEnd(lines[m])
                 IN <<SubSeq(lines, i + 1, j - 1)>> \o BookSections(SubSeq(lines, j + 1, Len(lines)))

\* the loop over the lines of one section (process_batch)
RECURSIVE ScanSection(_, _, _)
ScanSection(lines, info, path) ==
    IF lines = <<>> THEN info
    ELSE LET line == Head(lines)
         IN ScanSection(Tail(lines),
                IF StartsWith(line, "Title:")
                THEN [info EXCEPT !.title = Or(ValueOf(line), basename(path))]
                ELSE IF StartsWith(line, "Author:")
                THEN [info EXCEPT !.author = Or(ValueOf(line), Unknown)]
                ELSE IF StartsWith(line, "Year:")
                THEN [info EXCEPT !.year = Or(ValueOf(line), Unknown)]
                ELSE IF StartsWith(line, "Summary:")
                THEN [info EXCEPT !.summary = ValueOf(line)]
                ELSE IF StartsWith(line, "Category:")
                THEN [info EXCEPT !.category = Or(ValueOf(line), Uncategorized)]
                ELSE IF StartsWith(line, "Filename:") \/ StartsWith(line, "Format:")
                THEN [info EXCEPT !.filename_format = ValueOf(line)]
                ELSE info,
                path)

\* one iteration of "for i, section in enumerate(book_sections)"
SectionResult(section, path, original_data) ==
    LET parsed == ScanSection(SectionLines(section),
                      [title |-> <<>>, author |-> Unknown, year |-> Unknown,
                       summary |-> <<>>, category |-> Uncategorized,
                       original_path |-> path, filename_format |-> None],
                      path)
        titled == IF parsed.title = <<>>
                  THEN [parsed EXCEPT !.title = Or(original_data.title, basename(path))]
                  ELSE parsed
    IN IF titled.author = Unknown /\ original_data.author # <<>>
       THEN [titled EXCEPT !.author = original_data.author]
       ELSE titled

\* one iteration of "for i in range(len(book_sections), len(ebook_paths))"
MetadataOnlyResult(path, original_data) ==
    [title |-> Or(original_data.title, basename(path)),
     author |-> Or(original_data.author, Unknown),
     year |-> Unknown,
     summary |-> NoSummary,
     category |-> Uncategorized,
     original_path |-> path,
     filename_format |-> None]

\* (mutant) the fallback stops after the first record
FallbackResults_FirstOnly(files, singles) ==
    [i \in 1..Min(1, Len(files)) |-> generate_ebook_dict(files[i], singles[i])]

\* the fallback loop of process_batch: generate_ebook_dict for every path
FallbackResults(files, singles) ==
    [i \in 1..Len(files) |-> generate_ebook_dict(files[i], singles[i])]

\* (mutant) the records the response holds no section for are dropped
ParsedResults_DropsMissing(files, ebooks_data, book_sections) ==
    [i \in 1..Min(Len(files), Len(book_sections)) |->
        SectionResult(book_sections[i], files[i].path, ebooks_data[i].value)]

\* the results for a response with at least one section
ParsedResults(files, ebooks_data, book_sections) ==
    [i \in 1..Len(files) |->
        IF i <= Len(book_sections)
        THEN SectionResult(book_sections[i], files[i].path, ebooks_data[i].value)
        ELSE MetadataOnlyResult(files[i].path, ebooks_data[i].value)]

BatchCall(files) == [fn |-> "process_batch", paths |-> [i \in 1..Len(files) |-> files[i].path]]
SingleCall(f) == [fn |-> "generate_ebook_dict", paths |-> <<f.path>>]

\* the one llm.invoke of the generate_ebook_dict call that returned ebook_info
CallOf(ebook_info) == [fn |-> "generate_ebook_dict", paths |-> <<ebook_info.original_path>>]

\* process_batch(ebook_paths, ...), given the text the LLM answers the batch
\* prompt with and the texts it answers the single-item prompts with.
\* Returns the results and the LLM calls made, in order.
process_batch(files, response, singles) ==
    LET ebooks_data == [i \in 1..Len(files) |-> extract_ebook_data(files[i])]
        book_sections == BookSections(response)
    IN IF \E i \in 1..Len(files) : ebooks_data[i].raised THEN Raised
       ELSE IF Len(book_sections) = 0
       THEN LET each == FallbackResults(files, singles)
            IN IF \E i \in 1..Len(each) : each[i].raised THEN Raised
               ELSE Returned([results |-> [i \in 1..Len(each) |-> each[i].value],
                              llm_calls |-> <<BatchCall(files)>> \o
                                            [i \in 1..Len(each) |-> CallOf(each[i].value)]])
       ELSE Returned([results |-> ParsedResults(files, ebooks_data, book_sections),
                      llm_calls |-> <<BatchCall(files)>>])

-----------------------------------------------------------------------------
(* copy_ebook *)

output_dir == <<"out">>

\* (mutant) the extension is appended as the source file spells it
FileExt_AsSpelled(ebook_path) == splitext1(ebook_path)

\* os.path.splitext(ebook_path)[1].lower()
FileExt(ebook_path) == lower(splitext1(ebook_path))

\* category.replace(':', '-').replace('\\', '-')
CleanCategory(category) == ReplaceChar(ReplaceChar(category, ":", "-"), "\\", "-")

\* the name copy_ebook gives the copy
NewFilename(ebook_path, ebook_info) ==
    LET file_ext == FileExt(ebook_path)
        author == ReplaceChar(ebook_info.author, "/", "-")
        title == ReplaceChar(ebook_info.title, "/", "-")
        year == ReplaceChar(ebook_info.year, "/", "-")
    IN IF ebook_info.filename_format # None /\ ebook_info.filename_format # <<>>
       THEN ReplaceTok(ReplaceTok(ReplaceTok(ebook_info.filename_format,
                "{title}", title), "{author}", author), "{year}", year) \o file_ext
       ELSE title \o <<" - ">> \o author \o file_ext

\* copy_ebook(ebook_path, ebook_info, output_dir): the directory it makes and
\* the path it copies to
copy_ebook(ebook_path, ebook_info, out) ==
    LET new_dir == join(out, CleanCategory(ebook_info.category))
    IN [new_dir |-> new_dir,
        new_path |-> join(new_dir, NewFilename(ebook_path, ebook_info))]

-----------------------------------------------------------------------------
(* The file system *)

RECURSIVE SplitAll(_, _)
\* s.split(tok)
SplitAll(s, tok) ==
    IF ~Contains(s, tok) THEN <<s>>
    ELSE <<SubSeq(s, 1, FirstIndex(s, tok) - 1)>>
         \o SplitAll(SubSeq(s, FirstIndex(s, tok) + 1, Len(s)), tok)

RECURSIVE Resolve(_, _, _)
Resolve(segs, stack, abs) ==
    IF segs = <<>> THEN stack
    ELSE LET g == Head(segs)
         IN Resolve(Tail(segs),
                IF g = <<>> \/ g = <<".">> THEN stack
                ELSE IF g = <<".", ".">>
                THEN (IF stack # <<>> /\ stack[Len(stack)] # <<".", ".">>
                      THEN SubSeq(stack, 1, Len(stack) - 1)
                      ELSE IF abs THEN stack ELSE Append(stack, g))
                ELSE Append(stack, g),
                abs)

\* the place a path names: whether it is absolute, and its components
normpath(p) ==
    LET abs == p # <<>> /\ Head(p) = "/"
    IN [abs |-> abs, segs |-> Resolve(SplitAll(p, "/"), <<>>, abs)]

\* os.path.dirname(p)
dirname(p) ==
    IF ~Contains(p, "/") THEN <<>>
    ELSE IF LastIndex(p, "/") = 1 THEN <<"/">>
    ELSE SubSeq(p, 1, LastIndex(p, "/") - 1)

\* os.makedirs(new_dir, exist_ok=True): the directories that exist afterwards
makedirs(tree, new_dir) ==
    tree \cup {normpath(SubSeq(new_dir, 1, i)) :
                i \in {k \in 1..Len(new_dir) : k = Len(new_dir) \/ new_dir[k + 1] = "/"}}

\* the directory shutil.copy2 writes into exists
CanCopyTo(tree, new_path) ==
    \/ normpath(dirname(new_path)).segs = <<>>
    \/ normpath(dirname(new_path)) \in tree

Range(seq) == {seq[i] : i \in 1..Len(seq)}

-----------------------------------------------------------------------------
(* organize_ebooks *)

\* [d for d in os.listdir(output_dir) if os.path.isdir(os.path.join(output_dir, d))]
ListedDirs(tree) ==
    IF normpath(output_dir) \notin tree THEN {}
    ELSE {d.segs[2] : d \in {e \in tree : /\ ~e.abs
                                          /\ Len(e.segs) = 2
                                          /\ e.segs[1] = output_dir}}

\* the lists that hold the members of S once each
Orderings(S) == {q \in [1..Cardinality(S) -> S] : Range(q) = S}

\* file_ext in ['.pdf', '.epub', '.mobi', '.azw3']
IsEbook(path) ==
    lower(splitext1(path)) \in {<<".pdf">>, <<".epub">>, <<".mobi">>, <<".azw3">>}

RECURSIVE SelectEbooks(_)
SelectEbooks(files) ==
    IF files = <<>> THEN <<>>
    ELSE (IF IsEbook(Head(files).path) THEN <<Head(files).path>> ELSE <<>>)
         \o SelectEbooks(Tail(files))

FileAt(path) == CHOOSE f \in Range(disk) : f.path = path

\* (mutant) an empty category is left empty
CanonicalCategory_KeepsEmpty(category) ==
    ReplaceChar(ReplaceChar(category, ":", "-"), "\\", "-")

\* category.replace(":", "-").replace("\\", "-"), "Uncategorized" when empty
CanonicalCategory(category) ==
    LET replaced == ReplaceChar(ReplaceChar(category, ":", "-"), "\\", "-")
    IN IF replaced = <<>> THEN Uncategorized ELSE replaced

\* (mutant) the parent is not added
Register_NoParent(existing, category) ==
    IF category \notin Range(existing) THEN Append(existing, category) ELSE existing

\* "if category not in existing_categories: ..."
Register(existing, category) ==
    IF category \notin Range(existing)
    THEN LET added == Append(existing, category)
             parent_category == Split1(category, "/")[1]
         IN IF Contains(category, "/") /\ parent_category # <<>>
               /\ parent_category \notin Range(added)
            THEN Append(added, parent_category)
            ELSE added
    ELSE existing

BatchMode == batch_size > 1 /\ Len(ebook_files) > 1

\* "Determine if we should use default categories or custom ones"
use_default_categories ==
    ~(/\ additional_instructions # <<>>
      /\ \/ Contains(additional_instructions, "organize them into directories named after")
         \/ Contains(additional_instructions, "custom categories"))

-----------------------------------------------------------------------------
(* Idle values *)

NoCall == [fn |-> "none"]

RunIdle ==
    /\ additional_instructions = <<>>
    /\ pc = "idle"
    /\ disk = <<>>
    /\ out_tree = {}
    /\ out_files = {}
    /\ batch_size = 1
    /\ existing_categories = <<>>
    /\ ebook_files = <<>>
    /\ todo = 1
    /\ batch_results = <<>>
    /\ organized_files = <<>>
    /\ history = <<>>

-----------------------------------------------------------------------------
(* extract_ebook_data applied to one file *)

InitExtract ==
    /\ RunIdle
    /\ \E f \in AllFiles : call = [fn |-> "extract_ebook_data", arg |-> f, done |-> FALSE]

ExtractCall ==
    /\ call.fn = "extract_ebook_data"
    /\ ~call.done
    /\ call' = [call EXCEPT !.done = TRUE] @@ [ret |-> extract_ebook_data(call.arg)]
    /\ UNCHANGED runVars

SpecExtract == InitExtract /\ [][ExtractCall]_vars

-----------------------------------------------------------------------------
(* process_batch applied to one batch and one response *)

\* texts between a start tag and an end tag
Bodies ==
    { <<>>,
      << <<"Title:", " ", "A">>, <<"Author:", " ", "B">>, <<"Year:", " ", "1999">>,
         <<"Summary:", " ", "S">>, <<"Category:", " ", "T", "/", "G">> >>,
      << <<"Title:", " ">>, <<"Category:">>, <<"note">> >>,
      << <<" ", "Title:", "A">>, <<"Author:", "Unknown">>, <<"Title:", "Z">>,
         <<"Filename:", " ", "{title}">>, <<" ", "Category:", "X">> >> }

TagPairs == {<<"---BOOK 1 START---", "---BOOK 1 END---">>,
             <<"---BOOK 7 START---", "---BOOK 2 END---">>}

Block(tags, body) == [kind |-> "block", lines |-> << <<tags[1]>> >> \o body \o << <<tags[2]>> >>]

\* what a response is made of: whole blocks, and lines outside any block
Segments ==
    {Block(tags, body) : tags \in TagPairs, body \in Bodies}
    \cup {[kind |-> "stray", lines |-> << l >>] :
            l \in {<<"---BOOK START---">>, <<"---BOOK 1 START---">>, <<"---BOOK 1 END---">>}}

SeqsUpTo(S, n) == UNION {[1..k -> S] : k \in 0..n}

NoDuplicatePaths(files) ==
    \A i, j \in 1..Len(files) : files[i].path = files[j].path => i = j

\* the files a batch under check is drawn from
BatchFiles ==
    {f \in AllFiles :
        \/ /\ f.path = <<"in", "/", "D", ".epub">>
           /\ f.readable /\ f.title # <<>> /\ f.author # <<>>
        \/ /\ f.path = <<"in", "/", "D", " - ", "H", ".PDF">>
           /\ f.title = <<>> /\ f.author = <<>>
        \/ /\ f.path = <<"in", "/", "s", "/", "D", " - ", "H", ".mobi">>
           /\ f.readable /\ f.title = <<>> /\ f.author = <<>>}

ResponseOf(segments) == Concat([i \in 1..Len(segments) |-> segments[i].lines])

\* answers to a single-item prompt
SingleResponses ==
    { <<>>,
      << <<"Title:", " ", "A">>, <<"Author:", " ", "B">>, <<"Year:", " ", "1999">>,
         <<"Category:", " ", "T", "/", "G">> >>,
      << <<"Category:", "a", ":", "b">>, <<"Format:", "{year}", "/", "{title}">> >> }

InitBatch ==
    /\ RunIdle
    /\ \E files \in SeqsUpTo(BatchFiles, MaxBatch), segments \in SeqsUpTo(Segments, MaxSegments) :
        /\ files # <<>>
        /\ NoDuplicatePaths(files)
        /\ call = [fn |-> "process_batch", done |-> FALSE,
                   arg |-> [files |-> files, segments |-> segments,
                            response |-> ResponseOf(segments)]]

ProcessBatchCall ==
    /\ call.fn = "process_batch"
    /\ ~call.done
    /\ \E singles \in (IF Len(BookSections(call.arg.response)) = 0
                        THEN [1..Len(call.arg.files) -> SingleResponses] ELSE {<<>>}) :
        call' = [call EXCEPT !.done = TRUE]
                @@ [singles |-> singles,
                    ret |-> process_batch(call.arg.files, call.arg.response, singles)]
    /\ UNCHANGED runVars

SpecBatch == InitBatch /\ [][ProcessBatchCall]_vars

BatchReturned == call.fn = "process_batch" /\ call.done /\ ~call.ret.raised

\* no start tag is followed by an end tag: the regex finds no section
NoSection(response) ==
    ~\E i, j \in 1..Len(response) : i < j /\ IsStart(response[i]) /\ IsEnd(response[j])

PathsOf(files) == [i \in 1..Len(files) |-> files[i].path]

\* C1: when the batch response holds no START/END section, process_batch calls
\* generate_ebook_dict exactly once per record, in input order, after the one
\* batch call, and returns one result per record, in input order.
FullFallback_C1 ==
    (BatchReturned /\ NoSection(call.arg.response)) =>
        LET files == call.arg.files
            ret == call.ret.value
        IN /\ Len(ret.results) = Len(files)
           /\ \A i \in 1..Len(files) : ret.results[i].original_path = files[i].path
           /\ Len(ret.llm_calls) = Len(files) + 1
           /\ ret.llm_calls[1] = [fn |-> "process_batch", paths |-> PathsOf(files)]
           /\ \A i \in 1..Len(files) :
                ret.llm_calls[i + 1] = [fn |-> "generate_ebook_dict", paths |-> <<files[i].path>>]

\* a batch of two whose response is not empty and holds no section: both
\* records are categorized one by one, with different answers
FullFallback_C1_Witness ==
    /\ BatchReturned
    /\ NoSection(call.arg.response)
    /\ Len(call.arg.files) = 2
    /\ Len(call.arg.response) > 0
    /\ call.singles[1] # call.singles[2]
    /\ call.ret.value.results[1].category # call.ret.value.results[2].category

\* The fields of a section, read off its lines: for each prefix the value of
\* the last line that starts with it (the first line seen without its leading
\* blanks).
Seen(body) == [i \in 1..Len(body) |-> IF i = 1 THEN LStrip(body[i]) ELSE body[i]]

HasLine(body, prefixes) ==
    \E i \in 1..Len(body) : \E p \in prefixes : StartsWith(Seen(body)[i], p)

LastValue(body, prefixes) ==
    LET at == {i \in 1..Len(body) : \E p \in prefixes : StartsWith(Seen(body)[i], p)}
        last == CHOOSE i \in at : \A j \in at : j <= i
    IN Strip(Tail(Seen(body)[last]))

FieldOr(body, prefix, default) ==
    IF HasLine(body, {prefix}) /\ LastValue(body, {prefix}) # <<>>
    THEN LastValue(body, {prefix}) ELSE default

ExpectedOfSection(body, f) ==
    LET data == extract_ebook_data(f).value
        name == basename(f.path)
        given == FieldOr(body, "Author:", Unknown)
    IN [title |-> IF HasLine(body, {"Title:"}) THEN FieldOr(body, "Title:", name)
                  ELSE IF data.title # <<>> THEN data.title ELSE name,
        author |-> IF given = Unknown /\ data.author # <<>> THEN data.author ELSE given,
        year |-> FieldOr(body, "Year:", Unknown),
        summary |-> FieldOr(body, "Summary:", <<>>),
        category |-> FieldOr(body, "Category:", Uncategorized),
        original_path |-> f.path,
        filename_format |-> IF HasLine(body, {"Filename:", "Format:"})
                            THEN LastValue(body, {"Filename:", "Format:"}) ELSE None]

\* the response is n whole blocks, with nothing but untagged lines around them
WellFormedBlocks(segments, n) ==
    /\ Cardinality({i \in 1..Len(segments) : segments[i].kind = "block"}) = n
    /\ \A i \in 1..Len(segments) :
        segments[i].kind = "stray" => ~IsStart(segments[i].lines[1]) /\ ~IsEnd(segments[i].lines[1])

\* the i-th block of the segments, in document order
NthBlock(segments, i) ==
    LET at == CHOOSE k \in 1..Len(segments) :
                /\ segments[k].kind = "block"
                /\ Cardinality({m \in 1..k : segments[m].kind = "block"}) = i
    IN segments[at]

BodyOf(block) == SubSeq(block.lines, 2, Len(block.lines) - 1)

\* C2: given exactly n well-formed blocks for a batch of n records,
\* process_batch returns n results; the i-th carries the fields of the i-th
\* block in document order and the original_path of the i-th record, whatever
\* numbers the tags carry; the batch call is the only LLM call.
PositionalRoundTrip_C2 ==
    (BatchReturned /\ WellFormedBlocks(call.arg.segments, Len(call.arg.files))) =>
        LET files == call.arg.files
            ret == call.ret.value
        IN /\ Len(ret.results) = Len(files)
           /\ \A i \in 1..Len(files) :
                ret.results[i] = ExpectedOfSection(BodyOf(NthBlock(call.arg.segments, i)), files[i])

\* two blocks tagged 7/2 and then 1/1 for two records: the first result comes
\* from the first block, the second from the second
PositionalRoundTrip_C2_Witness ==
    /\ BatchReturned
    /\ Len(call.arg.files) = 2
    /\ WellFormedBlocks(call.arg.segments, 2)
    /\ call.arg.segments[1].lines[1] = <<"---BOOK 7 START---">>
    /\ call.arg.segments[2].lines[1] = <<"---BOOK 1 START---">>
    /\ call.ret.value.results[1].title = <<"Z">>
    /\ call.ret.value.results[2].category = <<"T", "/", "G">>

\* the result of a record the response holds no section for
DefaultOf(f, title, author) ==
    [title |-> title, author |-> author, year |-> Unknown, summary |-> NoSummary,
     category |-> Uncategorized, original_path |-> f.path, filename_format |-> None]

PartialBatch(k) ==
    /\ BatchReturned
    /\ k = Len(BookSections(call.arg.response))
    /\ 0 < k
    /\ k < Len(call.arg.files)

PartialBatchHolds(k, default(_)) ==
    LET files == call.arg.files
        ret == call.ret.value
    IN /\ Len(ret.results) = Len(files)
       /\ \A i \in 1..k :
            ret.results[i] = ExpectedOfSection(BookSections(call.arg.response)[i], files[i])
       /\ \A i \in (k + 1)..Len(files) : ret.results[i] = default(files[i])
       /\ ret.llm_calls = <<[fn |-> "process_batch", paths |-> PathsOf(files)]>>

\* C3 as stated: with 0 < k < count sections, the first k records get their
\* parsed fields, every later record the default result with the title and
\* author of the extraction, and the batch call is the only LLM call.
PartialDefaultsFromExtraction_C3 ==
    \A k \in 1..MaxSegments :
        PartialBatch(k) =>
            LET FromExtraction(f) ==
                    DefaultOf(f, extract_ebook_data(f).value.title,
                              extract_ebook_data(f).value.author)
            IN PartialBatchHolds(k, FromExtraction)

\* C3 amended: the default result takes the extracted title, or the file's
\* basename when the extracted title is empty, and the extracted author, or
\* "Unknown" when the extracted author is empty.
PartialDefaults_C3 ==
    \A k \in 1..MaxSegments :
        PartialBatch(k) =>
            LET FromMetadata(f) ==
                    LET data == extract_ebook_data(f).value
                    IN DefaultOf(f,
                                 IF data.title = <<>> THEN basename(f.path) ELSE data.title,
                                 IF data.author = <<>> THEN Unknown ELSE data.author)
            IN PartialBatchHolds(k, FromMetadata)

\* one section for two records, the second a PDF without Title metadata: its
\* default title is the file's basename
PartialDefaults_C3_Witness ==
    /\ PartialBatch(1)
    /\ Len(call.arg.files) = 2
    /\ call.ret.value.results[1].category = <<"T", "/", "G">>
    /\ call.ret.value.results[2].title = <<"D", " - ", "H", ".PDF">>
    /\ call.ret.value.results[2].category = Uncategorized

-----------------------------------------------------------------------------
(* copy_ebook applied to one result *)

CopyPaths == {<<"in", "/", "D", e>> : e \in ExtTokens \ {".txt"}}
CopyTitles == {<<"A">>, <<"A", "/", "B">>, <<"{author}">>}
CopyAuthors == {<<"B">>, <<"X", "/", "Y">>, <<"{year}">>}
CopyYears == {<<"1999">>, <<"1", "/", "2">>}
CopyFormats == {None, <<>>, <<"{year}", " - ", "{title}", " - ", "{author}">>,
                <<"{title}", "{title}", "{isbn}">>, <<"{author}", "_", "{title}">>}
CopyCategories == {<<"T", "/", "G">>, <<"a", ":", "b">>}

InitCopy ==
    /\ RunIdle
    /\ \E p \in CopyPaths, t \in CopyTitles, a \in CopyAuthors, y \in CopyYears,
          fmt \in CopyFormats, c \in CopyCategories :
        call = [fn |-> "copy_ebook", done |-> FALSE,
                arg |-> [ebook_path |-> p,
                         ebook_info |-> [title |-> t, author |-> a, year |-> y,
                                         summary |-> <<>>, category |-> c,
                                         original_path |-> p, filename_format |-> fmt]]]

CopyEbookCall ==
    /\ call.fn = "copy_ebook"
    /\ ~call.done
    /\ call' = [call EXCEPT !.done = TRUE]
               @@ [ret |-> copy_ebook(call.arg.ebook_path, call.arg.ebook_info, output_dir)]
    /\ UNCHANGED runVars

SpecCopy == InitCopy /\ [][CopyEbookCall]_vars

Dashed(s) == [i \in 1..Len(s) |-> IF s[i] = "/" THEN "-" ELSE s[i]]

\* every token of s replaced by what expand gives for it
Expanded(s, expand(_)) == Concat([i \in 1..Len(s) |-> expand(s[i])])

\* C5 as stated: the name is filename_format with {title}, {author}, {year}
\* replaced by the title, author and year (each with "/" replaced by "-"),
\* followed by the source file's original extension, when filename_format is
\* present; "<title> - <author><ext>" otherwise.
FilenameTemplate_C5 ==
    (call.fn = "copy_ebook" /\ call.done) =>
        LET info == call.arg.ebook_info
            ext == splitext1(call.arg.ebook_path)
            Value(tok) == CASE tok = "{title}" -> Dashed(info.title)
                            [] tok = "{author}" -> Dashed(info.author)
                            [] tok = "{year}" -> Dashed(info.year)
                            [] OTHER -> <<tok>>
        IN call.ret.new_path =
            join(call.ret.new_dir,
                 IF info.filename_format # None
                 THEN Expanded(info.filename_format, Value) \o ext
                 ELSE Dashed(info.title) \o <<" - ">> \o Dashed(info.author) \o ext)

\* C5 amended: the extension appended is the source file's extension in lower
\* case; the template is used when filename_format is present and not empty;
\* {title} is replaced first, then {author}, then {year}, each replacement
\* also reaching the text the earlier ones put in.
FilenameTemplateLowered_C5 ==
    (call.fn = "copy_ebook" /\ call.done) =>
        LET info == call.arg.ebook_info
            ext == lower(splitext1(call.arg.ebook_path))
            InAuthor(tok) == IF tok = "{year}" THEN Dashed(info.year) ELSE <<tok>>
            InTitle(tok) == IF tok = "{author}" THEN Expanded(Dashed(info.author), InAuthor)
                            ELSE InAuthor(tok)
            Value(tok) == IF tok = "{title}" THEN Expanded(Dashed(info.title), InTitle)
                          ELSE InTitle(tok)
        IN call.ret.new_path =
            join(call.ret.new_dir,
                 IF info.filename_format \notin {None, <<>>}
                 THEN Expanded(info.filename_format, Value) \o ext
                 ELSE Dashed(info.title) \o <<" - ">> \o Dashed(info.author) \o ext)

\* D.EPUB with a {year} - {title} - {author} template is copied as ....epub
FilenameTemplateLowered_C5_Witness ==
    /\ call.fn = "copy_ebook"
    /\ call.done
    /\ call.arg.ebook_path = <<"in", "/", "D", ".EPUB">>
    /\ call.arg.ebook_info.filename_format = <<"{year}", " - ", "{title}", " - ", "{author}">>
    /\ call.ret.new_path = <<"out", "/", "T", "/", "G", "/",
                             "1999", " - ", "A", "-", "B", " - ", "X", "-", "Y", ".epub">>

-----------------------------------------------------------------------------
(* A run of organize_ebooks *)

\* the input directory's files in the order os.walk yields them
RunLibrary ==
    << [path |-> <<"in", "/", "D", ".epub">>, title |-> <<"D", "u", "n", "e">>,
        author |-> <<"F", "H">>, readable |-> TRUE],
       [path |-> <<"in", "/", "D", " - ", "H", ".PDF">>, title |-> <<>>,
        author |-> <<>>, readable |-> TRUE],
       [path |-> <<"in", "/", "D", ".txt">>, title |-> <<>>,
        author |-> <<>>, readable |-> TRUE],
       [path |-> <<"in", "/", "s", "/", "D", ".epub">>, title |-> <<"D", "u", "n", "e">>,
        author |-> <<"F", "H">>, readable |-> TRUE],
       [path |-> <<"in", "/", "s", "/", "D", " - ", "H", ".pdf">>, title |-> <<>>,
        author |-> <<>>, readable |-> FALSE] >>

RECURSIVE Pick(_, _, _)
\* the members of lib at the indexes in S, in lib's order
Pick(lib, S, i) ==
    IF i > Len(lib) THEN <<>>
    ELSE (IF i \in S THEN <<lib[i]>> ELSE <<>>) \o Pick(lib, S, i + 1)

\* the category directories of a well-filled output directory, as listed
Shelves == <<"N1", "N2", "N3", "N4", "N5", "N6", "N7", "N8", "N9">>

\* the output directory before the run: absent, or left by an earlier run
Trees ==
    { {},
      {normpath(<<"out">>), normpath(<<"out", "/", "T">>),
       normpath(<<"out", "/", "T", "/", "G">>)},
      {normpath(<<"out">>), normpath(<<"out", "/", "N">>), normpath(<<"out", "/", "T">>)},
      {normpath(<<"out">>)} \cup {normpath(<<"out", "/", Shelves[i]>>) : i \in 1..Len(Shelves)} }

\* the orders os.listdir can give the directories in: every order of a small
\* directory, the order of Shelves for the well-filled one
Listings(dirs) ==
    IF dirs = {<<Shelves[i]>> : i \in 1..Len(Shelves)}
    THEN {[i \in 1..Len(Shelves) |-> <<Shelves[i]>>]}
    ELSE Orderings(dirs)

\* the additional_instructions a run is started with
RunInstructions == {<<>>, <<"use", " ", "custom categories">>}

\* what the LLM says of one book
RunAnswers ==
    { << <<"Title:", " ", "A">>, <<"Author:", " ", "B">>, <<"Category:", " ", "T", "/", "G">> >>,
      << <<"Title:", " ", "A">>, <<"Author:", " ", "B">>, <<"Category:", "A", "/", "B", "/", "C">> >>,
      << <<"Category:">>, <<"Format:", "{year}", "/", "{title}">> >>,
      << <<"Category:", "a", ":", "b", "\\", "c">> >>,
      << <<"Category:", "/", "G">> >> }

\* the answers to a batch prompt for n books: at most n blocks
RunBatchResponses(n) ==
    {ResponseOf([i \in 1..Len(bodies) |->
                    Block(<<"---BOOK 1 START---", "---BOOK 1 END---">>, bodies[i])]) :
        bodies \in SeqsUpTo(RunAnswers, n)}

InitRun ==
    /\ call = NoCall
    /\ additional_instructions \in RunInstructions
    /\ pc = "start"
    /\ \E S \in SUBSET (1..Len(RunLibrary)) :
        /\ Cardinality(S) <= MaxFiles
        /\ disk = Pick(RunLibrary, S, 1)
    /\ out_tree \in Trees
    /\ out_files = {}
    /\ batch_size \in 1..MaxBatch
    /\ existing_categories = <<>>
    /\ ebook_files = <<>>
    /\ todo = 1
    /\ batch_results = <<>>
    /\ organized_files = <<>>
    /\ history = <<>>

\* "Get existing categories from output directory if it exists"
Seed ==
    /\ pc = "start"
    /\ existing_categories' \in Listings(ListedDirs(out_tree))
    /\ pc' = "walk"
    /\ UNCHANGED <<call, additional_instructions, disk, out_tree, out_files, batch_size, ebook_files, todo,
                   batch_results, organized_files, history>>

\* "Recursively search for all ebook files"
Walk ==
    /\ pc = "walk"
    /\ ebook_files' = SelectEbooks(disk)
    /\ pc' = IF SelectEbooks(disk) = <<>> THEN "done" ELSE "loop"
    /\ UNCHANGED <<call, additional_instructions, disk, out_tree, out_files, batch_size, existing_categories, todo,
                   batch_results, organized_files, history>>

\* an llm.invoke: the function that makes it, the files it is about, the
\* existing_categories the function was passed and what its prompt lists
LlmEvent(llm_call) ==
    [ev |-> "llm", fn |-> llm_call.fn, paths |-> llm_call.paths,
     existing |-> existing_categories,
     prompt |-> IF llm_call.fn = "process_batch"
                THEN batch_prompt(ExampleCategories, use_default_categories,
                                  existing_categories)
                ELSE generate_prompt(ExampleCategories, use_default_categories,
                                     existing_categories)]

\* one iteration of "for i in range(0, len(ebook_files), batch_size)", up to
\* the return of process_batch
BatchStep ==
    /\ pc = "loop"
    /\ BatchMode
    /\ todo <= Len(ebook_files)
    /\ LET batch == SubSeq(ebook_files, todo, Min(todo + batch_size - 1, Len(ebook_files)))
           files == [i \in 1..Len(batch) |-> FileAt(batch[i])]
       IN \E response \in RunBatchResponses(Len(batch)) :
          \E singles \in (IF response = <<>> THEN [1..Len(batch) -> RunAnswers] ELSE {<<>>}) :
            LET r == process_batch(files, response, singles)
            IN IF r.raised
               THEN /\ pc' = "raised"
                    /\ UNCHANGED <<batch_results, history>>
               ELSE /\ pc' = "handle"
                    /\ batch_results' = r.value.results
                    /\ history' = history \o [i \in 1..Len(r.value.llm_calls) |->
                                                LlmEvent(r.value.llm_calls[i])]
    /\ todo' = todo + batch_size
    /\ UNCHANGED <<call, additional_instructions, disk, out_tree, out_files, batch_size, existing_categories,
                   ebook_files, organized_files>>

\* one iteration of "for ebook_path in ebook_files", up to the return of
\* generate_ebook_dict
SingleStep ==
    /\ pc = "loop"
    /\ ~BatchMode
    /\ todo <= Len(ebook_files)
    /\ \E response \in RunAnswers :
        LET r == generate_ebook_dict(FileAt(ebook_files[todo]), response)
        IN IF r.raised
           THEN /\ pc' = "raised"
                /\ UNCHANGED <<batch_results, history>>
           ELSE /\ pc' = "handle"
                /\ batch_results' = <<r.value>>
                /\ history' = Append(history, LlmEvent(SingleCall(FileAt(ebook_files[todo]))))
    /\ todo' = todo + 1
    /\ UNCHANGED <<call, additional_instructions, disk, out_tree, out_files, batch_size, existing_categories,
                   ebook_files, organized_files>>

\* the result being handled, with its category canonicalised
Handled == [Head(batch_results) EXCEPT !.category = CanonicalCategory(@)]

\* what the handling of the result at the head of batch_results does
HandledEvent(ev) ==
    LET target == copy_ebook(Handled.original_path, Handled, output_dir)
    IN [ev |-> ev, path |-> Handled.original_path,
        raw |-> Head(batch_results).category,
        category |-> Handled.category,
        before |-> existing_categories,
        after |-> Register(existing_categories, Handled.category),
        new_dir |-> target.new_dir,
        new_path |-> target.new_path]

\* the handling of one result: canonicalise the category, register it, copy
\* the file, append the result
HandleResult ==
    /\ pc = "handle"
    /\ batch_results # <<>>
    /\ LET ebook_dict == Handled
           target == copy_ebook(ebook_dict.original_path, ebook_dict, output_dir)
           made == makedirs(out_tree, target.new_dir)
       IN /\ existing_categories' = Register(existing_categories, ebook_dict.category)
          /\ out_tree' = made
          /\ IF CanCopyTo(made, target.new_path)
             THEN /\ out_files' = {e \in out_files : e.dst # normpath(target.new_path)}
                                  \cup {[dst |-> normpath(target.new_path),
                                         src |-> ebook_dict.original_path]}
                  /\ organized_files' = Append(organized_files,
                                               ebook_dict @@ [location |-> target.new_path])
                  /\ history' = Append(history, HandledEvent("copied"))
                  /\ batch_results' = Tail(batch_results)
                  /\ pc' = IF Tail(batch_results) = <<>> THEN "loop" ELSE "handle"
             ELSE /\ pc' = "raised"
                  /\ history' = Append(history, HandledEvent("copy failed"))
                  /\ UNCHANGED <<out_files, organized_files, batch_results>>
    /\ UNCHANGED <<call, additional_instructions, disk, batch_size, ebook_files, todo>>

\* shutil.copy2 fails for a reason of the environment: the run is aborted
CopyFails ==
    /\ pc = "handle"
    /\ batch_results # <<>>
    /\ existing_categories' = Register(existing_categories, Handled.category)
    /\ out_tree' = makedirs(out_tree, copy_ebook(Handled.original_path, Handled, output_dir).new_dir)
    /\ history' = Append(history, HandledEvent("copy failed"))
    /\ pc' = "raised"
    /\ UNCHANGED <<call, additional_instructions, disk, out_files, batch_size, ebook_files, todo, batch_results,
                   organized_files>>

\* "return organized_files"
Finish ==
    /\ pc = "loop"
    /\ todo > Len(ebook_files)
    /\ pc' = "done"
    /\ UNCHANGED <<call, additional_instructions, disk, out_tree, out_files, batch_size, existing_categories,
                   ebook_files, todo, batch_results, organized_files, history>>

Next == Seed \/ Walk \/ BatchStep \/ SingleStep \/ HandleResult \/ CopyFails \/ Finish

Spec == InitRun /\ [][Next]_vars

Handlings == {i \in 1..Len(history) : history[i].ev \in {"copied", "copy failed"}}

SlashesAt(s) == {i \in 1..Len(s) : s[i] = "/"}

\* C4: in both the batch path and the individual path, the category a result
\* is registered and copied with is not empty, holds no ":" and no "\", keeps
\* every "/" of the categorizer's output, and is "Uncategorized" whenever the
\* categorizer's output was the empty string.
CanonicalCategory_C4 ==
    \A i \in Handlings :
        LET e == history[i]
        IN /\ e.category # <<>>
           /\ ~Contains(e.category, ":")
           /\ ~Contains(e.category, "\\")
           /\ e.raw # <<>> => SlashesAt(e.category) = SlashesAt(e.raw)
           /\ e.raw = <<>> => e.category = Uncategorized
           /\ e.category \in Range(e.after)
           /\ e.new_dir = join(output_dir, e.category)

\* a batch run that handled an empty category (from the fallback) and a:b\c
CanonicalCategory_C4_Witness ==
    /\ BatchMode
    /\ \E i, j \in Handlings :
        /\ history[i].raw = <<>>
        /\ history[i].category = Uncategorized
        /\ history[j].raw = <<"a", ":", "b", "\\", "c">>
        /\ history[j].category = <<"a", "-", "b", "-", "c">>
        /\ history[j].ev = "copied"

\* C6: no two distinct source files are copied to the same destination path
\* in one run.
CollisionFree_C6 ==
    \A i, j \in Handlings :
        (/\ history[i].ev = "copied"
         /\ history[j].ev = "copied"
         /\ history[i].path # history[j].path)
        => normpath(history[i].new_path) # normpath(history[j].new_path)

FirstLevelPrefix(category) == SubSeq(category, 1, FirstIndex(category, "/") - 1)

\* C7 as stated: registering a category the registry does not hold adds it,
\* and when it holds a "/" the registry afterwards holds its first-level
\* prefix too; nothing else is added (for A/B/C, not A/B).
RegisterAddsPrefix_C7 ==
    \A i \in Handlings :
        LET e == history[i]
        IN e.category \notin Range(e.before) =>
            /\ e.category \in Range(e.after)
            /\ Contains(e.category, "/") => FirstLevelPrefix(e.category) \in Range(e.after)
            /\ Range(e.after) \ Range(e.before)
                 \subseteq {e.category, FirstLevelPrefix(e.category)}
            /\ Range(e.before) \subseteq Range(e.after)

\* C7 amended: the first-level prefix is present afterwards when it is not
\* the empty string (a category that begins with "/" adds no parent).
RegisterAddsNonEmptyPrefix_C7 ==
    \A i \in Handlings :
        LET e == history[i]
        IN e.category \notin Range(e.before) =>
            /\ e.category \in Range(e.after)
            /\ (Contains(e.category, "/") /\ FirstLevelPrefix(e.category) # <<>>)
                 => FirstLevelPrefix(e.category) \in Range(e.after)
            /\ <<>> \notin Range(e.after)
            /\ Range(e.after) \ Range(e.before)
                 \subseteq {e.category, FirstLevelPrefix(e.category)}
            /\ Range(e.before) \subseteq Range(e.after)

\* T/G registered with T absent adds T; A/B/C adds A and not A/B
RegisterAddsNonEmptyPrefix_C7_Witness ==
    \E i, j \in Handlings :
        /\ history[i].category = <<"T", "/", "G">>
        /\ <<"T">> \notin Range(history[i].before)
        /\ <<"T">> \in Range(history[i].after)
        /\ history[j].category = <<"A", "/", "B", "/", "C">>
        /\ <<"A">> \in Range(history[j].after)
        /\ <<"A", "/", "B">> \notin Range(history[j].after)

\* C8: the registry is prefix-closed at full depth in every state of a run:
\* with a category it holds every proper "/"-delimited prefix of it.
PrefixClosed_C8 ==
    \A c \in Range(existing_categories) :
        \A i \in SlashesAt(c) : i > 1 => SubSeq(c, 1, i - 1) \in Range(existing_categories)

RECURSIVE JoinSegs(_)
JoinSegs(segs) ==
    IF Len(segs) = 1 THEN Head(segs) ELSE Head(segs) \o <<"/">> \o JoinSegs(Tail(segs))

\* C9: seeding records every directory under the output root, at every depth,
\* as its "/"-separated path relative to the root.
SeedRecursive_C9 ==
    pc = "walk" =>
        \A d \in out_tree :
            (~d.abs /\ Len(d.segs) >= 2 /\ d.segs[1] = output_dir)
            => JoinSegs(Tail(d.segs)) \in Range(existing_categories)

\* C10: extract_ebook_data never raises for a .pdf or .epub file; a failed
\* extraction gives a record whose title and author come from the filename by
\* the " - " splitting rule and whose text describes the error.
ExtractionNeverRaises_C10 ==
    (/\ call.fn = "extract_ebook_data"
     /\ call.done
     /\ lower(splitext1(call.arg.path)) \in {<<".pdf">>, <<".epub">>})
    => /\ ~call.ret.raised
       /\ ~call.arg.readable =>
            LET parts == FilenameParts(call.arg.path)
            IN /\ call.ret.value.title = parts[1]
               /\ call.ret.value.author = (IF Len(parts) > 1 THEN parts[2] ELSE <<"Unknown">>)
               /\ Head(call.ret.value.extracted_text) = "Error processing file: "

-----------------------------------------------------------------------------
(* generate_ebook_dict applied to one file and one response *)

MaxExtra == 2       \* lines of a response after its base answer

GenerateFiles ==
    BatchFiles \cup
    {[path |-> <<"in", "/", "P", ".epub">>, title |-> <<"learn", " ", "python">>,
      author |-> <<>>, readable |-> TRUE]}

FullAnswer ==
    << <<"Title:", " ", "A">>, <<"Author:", " ", "B">>, <<"Year:", " ", "1999">>,
       <<"Summary:", " ", "S">>, <<"Category:", " ", "T", "/", "G">> >>

GenerateLines ==
    { <<"Title:", "Z">>, <<"Title:", " ">>, <<" ", "Title:", "Q">>,
      <<"Author:">>,
      <<"Year:", " ", "c", " ", "1965">>, <<"Year:">>,
      <<"Summary:", "R">>,
      <<"Category:", "X">>, <<"Category:", "Technology", "/", "Python">>,
      <<"Format:", "{title}">> }

GenerateResponses ==
    {base \o extra : base \in {<<>>, FullAnswer}, extra \in SeqsUpTo(GenerateLines, MaxExtra)}

GenerateExisting == {<<>>, << <<"Fiction">>, <<"Technology", "/", "Python">> >>}

InitGenerate ==
    /\ RunIdle
    /\ \E f \in GenerateFiles, response \in GenerateResponses,
          use_default \in BOOLEAN, existing \in GenerateExisting :
        call = [fn |-> "generate_ebook_dict", done |-> FALSE,
                arg |-> [file |-> f, response |-> response,
                         use_default_categories |-> use_default,
                         existing_categories |-> existing]]

GenerateCall ==
    /\ call.fn = "generate_ebook_dict"
    /\ ~call.done
    /\ call' = [call EXCEPT !.done = TRUE]
               @@ [prompt |-> generate_prompt(ExampleCategories,
                                              call.arg.use_default_categories,
                                              call.arg.existing_categories),
                   llm_calls |-> generate_llm_calls(call.arg.file),
                   ret |-> generate_ebook_dict(call.arg.file, call.arg.response)]
    /\ UNCHANGED runVars

SpecGenerate == InitGenerate /\ [][GenerateCall]_vars

GenerateDone == call.fn = "generate_ebook_dict" /\ call.done

\* the response has a line that starts with the prefix
HasPrefix(response, prefix) ==
    \E i \in 1..Len(response) : response[i] # <<>> /\ response[i][1] = prefix

\* the text after the prefix on the last such line, without surrounding blanks
LastWith(response, prefix) ==
    LET at == {i \in 1..Len(response) : response[i] # <<>> /\ response[i][1] = prefix}
        last == CHOOSE i \in at : \A j \in at : j <= i
    IN Strip(SubSeq(response[last], 2, Len(response[last])))

\* C11 as stated: generate_ebook_dict calls the completion service exactly
\* once, and each of title, author, year, summary and category is the value of
\* the last response line with its prefix, or, with no such line, the
\* extracted title, the extracted author, "Unknown", "" and "".
LastLineOrDefault_C11 ==
    GenerateDone =>
        LET f == call.arg.file
            response == call.arg.response
            Field(prefix, default) ==
                IF HasPrefix(response, prefix) THEN LastWith(response, prefix) ELSE default
        IN /\ Len(call.llm_calls) = 1
           /\ ~call.ret.raised =>
                LET data == extract_ebook_data(f).value
                    info == call.ret.value
                IN /\ info.title = Field("Title:", data.title)
                   /\ info.author = Field("Author:", data.author)
                   /\ info.year = Field("Year:", Unknown)
                   /\ info.summary = Field("Summary:", <<>>)
                   /\ info.category = Field("Category:", <<>>)

\* C11 amended: the completion service is called once when the extraction
\* returns and not at all when it raises (generate_ebook_dict raises then);
\* title and author also default to the extracted metadata when the last
\* line with their prefix has an empty value.
LastLineOrMetadata_C11 ==
    GenerateDone =>
        LET f == call.arg.file
            response == call.arg.response
            Field(prefix, default) ==
                IF HasPrefix(response, prefix) THEN LastWith(response, prefix) ELSE default
            NonEmptyField(prefix, default) ==
                IF HasPrefix(response, prefix) /\ LastWith(response, prefix) # <<>>
                THEN LastWith(response, prefix) ELSE default
        IN IF lower(splitext1(f.path)) = <<".pdf">> /\ ~f.readable
           THEN call.ret.raised /\ call.llm_calls = <<>>
           ELSE LET data == extract_ebook_data(f).value
                    info == call.ret.value
                IN /\ ~call.ret.raised
                   /\ call.llm_calls = << [fn |-> "generate_ebook_dict", paths |-> <<f.path>>] >>
                   /\ info.title = NonEmptyField("Title:", data.title)
                   /\ info.author = NonEmptyField("Author:", data.author)
                   /\ info.year = Field("Year:", Unknown)
                   /\ info.summary = Field("Summary:", <<>>)
                   /\ info.category = Field("Category:", <<>>)
                   /\ info.original_path = f.path

\* a full answer followed by a second Title line and an empty Author line:
\* the second title wins, the author is the one of the metadata
LastLineOrMetadata_C11_Witness ==
    /\ GenerateDone
    /\ call.arg.file.path = <<"in", "/", "D", ".epub">>
    /\ call.arg.response = FullAnswer \o << <<"Title:", "Z">>, <<"Author:">> >>
    /\ call.ret.value.title = <<"Z">>
    /\ call.ret.value.author = <<"F", "H">>
    /\ call.ret.value.year = <<"1999">>
    /\ Len(call.llm_calls) = 1

\* the year strings of the form YYYY among the tokens of the responses
FourDigitYears == {<<"1999">>, <<"1965">>}

\* C12: every result of generate_ebook_dict or process_batch, for any LLM
\* response text, has a year that is a four-digit YYYY string or "Unknown".
YearIsYYYYOrUnknown_C12 ==
    /\ (GenerateDone /\ ~call.ret.raised) =>
            call.ret.value.year \in FourDigitYears \cup {Unknown}
    /\ BatchReturned =>
            \A i \in 1..Len(call.ret.value.results) :
                call.ret.value.results[i].year \in FourDigitYears \cup {Unknown}

-----------------------------------------------------------------------------
(* The rule-based categorizer.  A text is a sequence of words and blanks. *)

MaxExisting == 2    \* categories of the existing-categories list supplied

\* word.lower()
LowerWord(w) ==
    CASE w = "Python" -> "python"
      [] w = "Fantasy" -> "fantasy"
      [] w = "Library" -> "library"
      [] w = "Technology" -> "technology"
      [] w = "Fiction" -> "fiction"
      [] OTHER -> w

Lowered(s) == [i \in 1..Len(s) |-> LowerWord(s[i])]

\* word appears textually in text
Appears(text, word) ==
    /\ word # <<>>
    /\ \E i \in 1..Len(text) :
        i + Len(word) - 1 <= Len(text) /\ SubSeq(text, i, i + Len(word) - 1) = word

\* the sub-segment name of a hierarchical category
SubSegment(category) == SubSeq(category, LastIndex(category, "/") + 1, Len(category))

TechnologyKeywords == {"python", "javascript", "programming", "software"}
FictionKeywords == {"fantasy", "novel", "story"}
BusinessKeywords == {"business", "management"}

HasAny(text, keywords) == \E i \in 1..Len(text) : text[i] \in keywords

\* the three keyword groups, in their fixed order, with their refinements
KeywordCategory(text) ==
    IF HasAny(text, TechnologyKeywords)
    THEN (IF Contains(text, "python") THEN <<"Technology", "/", "Python">>
          ELSE IF Contains(text, "javascript") THEN <<"Technology", "/", "JavaScript">>
          ELSE <<"Technology">>)
    ELSE IF HasAny(text, FictionKeywords)
    THEN (IF Contains(text, "fantasy") THEN <<"Fiction", "/", "Fantasy">>
          ELSE <<"Fiction">>)
    ELSE IF HasAny(text, BusinessKeywords) THEN <<"Business">>
    ELSE Uncategorized

RECURSIVE FirstReusable(_, _)
\* the first existing hierarchical category whose sub-segment name appears
FirstReusable(existing, text) ==
    IF existing = <<>> THEN None
    ELSE IF Contains(Head(existing), "/") /\ Appears(text, Lowered(SubSegment(Head(existing))))
    THEN Head(existing)
    ELSE FirstReusable(Tail(existing), text)

RecordText(record) == Lowered(record.title \o <<" ">> \o record.extracted_text)

\* (mutant) the keyword groups are consulted before the existing categories
categorize_KeywordsFirst(record, existing) ==
    LET fresh == KeywordCategory(RecordText(record))
        reused == FirstReusable(existing, RecordText(record))
    IN IF fresh # Uncategorized THEN fresh
       ELSE IF reused # None THEN reused ELSE fresh

\* categorize(record), with an existing-categories list (empty: none supplied)
categorize(record, existing) ==
    LET reused == FirstReusable(existing, RecordText(record))
    IN IF reused # None THEN reused ELSE KeywordCategory(RecordText(record))

RecordTitles == {<<"learn", " ", "Python">>, <<"dragon", " ", "story">>, <<"notes">>}
RecordTexts == {<<>>, <<"programming">>, <<"a", " ", "fantasy", " ", "novel">>}

CategoryPool ==
    {<<"Technology", "/", "Python">>, <<"Library", "/", "Python">>,
     <<"Fiction", "/", "Fantasy">>, <<"Python">>, <<"Business">>}

InitCategorize ==
    /\ RunIdle
    /\ \E t \in RecordTitles, x \in RecordTexts, existing \in SeqsUpTo(CategoryPool, MaxExisting) :
        call = [fn |-> "categorize", done |-> FALSE,
                arg |-> [record |-> [title |-> t, extracted_text |-> x],
                         existing_categories |-> existing]]

CategorizeCall ==
    /\ call.fn = "categorize"
    /\ ~call.done
    /\ call' = [call EXCEPT !.done = TRUE]
               @@ [ret |-> categorize(call.arg.record, call.arg.existing_categories)]
    /\ UNCHANGED runVars

SpecCategorize == InitCategorize /\ [][CategorizeCall]_vars

\* the places of the existing list that hold a hierarchical category whose
\* sub-segment name appears in the record's title or text
ReusableAt(record, existing) ==
    {i \in 1..Len(existing) :
        /\ \E k \in 1..Len(existing[i]) : existing[i][k] = "/"
        /\ Appears(Lowered(record.title \o <<" ">> \o record.extracted_text),
                   Lowered(SubSegment(existing[i])))}

\* C13: given an existing-categories list, the categorizer returns an
\* existing hierarchical category unchanged whenever its sub-segment name
\* appears in the record's title or text (the first such one of the list),
\* before any fresh category is derived; with "Technology/Python" existing and
\* "python" in the title the result is exactly "Technology/Python".
ReuseBias_C13 ==
    (call.fn = "categorize" /\ call.done) =>
        LET record == call.arg.record
            existing == call.arg.existing_categories
            at == ReusableAt(record, existing)
        IN /\ at # {} => \E i \in at : /\ call.ret = existing[i]
                                        /\ \A j \in at : i <= j
           /\ (/\ existing = << <<"Technology", "/", "Python">> >>
               /\ Contains(Lowered(record.title), "python"))
              => call.ret = <<"Technology", "/", "Python">>

\* "Library/Python" exists and the title says Python, the text programming:
\* the existing category is returned, not the fresh "Technology/Python"
ReuseBias_C13_Witness ==
    /\ call.fn = "categorize"
    /\ call.done
    /\ call.arg.existing_categories = << <<"Python">>, <<"Library", "/", "Python">> >>
    /\ call.arg.record.title = <<"learn", " ", "Python">>
    /\ call.arg.record.extracted_text = <<"programming">>
    /\ call.ret = <<"Library", "/", "Python">>

-----------------------------------------------------------------------------
(* Claims about a whole run of organize_ebooks *)

RunEnded == pc \in {"done", "raised"}

NoCopyFailed == \A i \in 1..Len(history) : history[i].ev # "copy failed"

RECURSIVE EventsOf(_, _)
\* the events of the log of the given kind, in order
EventsOf(log, kind) ==
    IF log = <<>> THEN <<>>
    ELSE (IF Head(log).ev = kind THEN <<Head(log)>> ELSE <<>>) \o EventsOf(Tail(log), kind)

\* the batch requests of the log, in order
BatchRequests ==
    LET llm == EventsOf(history, "llm")
        at == {i \in 1..Len(llm) : llm[i].fn = "process_batch"}
    IN Pick(llm, at, 1)

\* C14: in a run in which no copy fails, every discovered ebook file is
\* categorized, registered and copied exactly once and yields exactly one entry
\* of the returned list, in walk order; in batch mode the files are split into
\* consecutive batches of at most batch_size records, no file in two batches
\* or in none.
EveryFileOnce_C14 ==
    (RunEnded /\ NoCopyFailed) =>
        LET found == SelectEbooks(disk)
            copied == EventsOf(history, "copied")
        IN /\ pc = "done"
           /\ [i \in 1..Len(copied) |-> copied[i].path] = found
           /\ [i \in 1..Len(organized_files) |-> organized_files[i].original_path] = found
           /\ \A i \in 1..Len(copied) : copied[i].category \in Range(copied[i].after)
           /\ \A p \in Range(found) :
                \E i \in 1..Len(history) :
                    history[i].ev = "llm" /\ p \in Range(history[i].paths)
           /\ (batch_size > 1 /\ Len(found) > 1) =>
                /\ Concat([i \in 1..Len(BatchRequests) |-> BatchRequests[i].paths]) = found
                /\ \A i \in 1..Len(BatchRequests) :
                        Len(BatchRequests[i].paths) \in 1..batch_size

IsPrefix(a, b) == Len(a) <= Len(b) /\ SubSeq(b, 1, Len(a)) = a

LlmEvents == {i \in 1..Len(history) : history[i].ev = "llm"}

\* the registry only grows at its end, from one handling to the next
AppendOnly ==
    /\ \A i \in Handlings : IsPrefix(history[i].before, history[i].after)
    /\ \A i, j \in Handlings : i < j => IsPrefix(history[i].after, history[j].before)
    /\ \A i \in Handlings : IsPrefix(history[i].after, existing_categories)

\* C15 as stated: every categorization request issued after a category was
\* registered presents to the categorizer an existing-category list that holds
\* every category registered by earlier records, and the registry is only
\* ever appended to.
RequestPresentsRegistry_C15 ==
    /\ \A j \in LlmEvents : \A i \in Handlings :
            i < j => /\ history[j].prompt.lists = "existing"
                     /\ Range(history[i].after) \subseteq Range(history[j].prompt.listed)
    /\ AppendOnly

\* C15 amended: every request is passed the registry as it is when the
\* request is made, with every category registered by earlier records; its
\* prompt lists the existing categories only in a run with custom
\* categorization (the example categories otherwise), all of them in a
\* single-item request and the first ten in a batch request; the registry is
\* only ever appended to.
RequestPassedRegistry_C15 ==
    /\ \A j \in LlmEvents :
        LET e == history[j]
        IN /\ \A i \in Handlings : i < j => IsPrefix(history[i].after, e.existing)
           /\ IF use_default_categories
              THEN e.prompt.lists = "examples" /\ e.prompt.listed = ExampleCategories
              ELSE IF e.existing = <<>>
              THEN e.prompt.lists = "nothing"
              ELSE /\ e.prompt.lists = "existing"
                   /\ e.prompt.listed =
                        (IF e.fn = "process_batch" /\ Len(e.existing) > 10
                         THEN SubSeq(e.existing, 1, 10) ELSE e.existing)
    /\ AppendOnly

\* a run with custom categorization over a well-filled output directory: the
\* second batch request is passed the category A/B/C the first batch
\* registered, and its prompt, cut after ten categories, does not list it
RequestPassedRegistry_C15_Witness ==
    /\ ~use_default_categories
    /\ \E j \in LlmEvents : \E i \in Handlings :
        /\ i < j
        /\ history[j].fn = "process_batch"
        /\ history[i].category = <<"A", "/", "B", "/", "C">>
        /\ history[i].category \in Range(history[j].existing)
        /\ Len(history[j].prompt.listed) = 10
        /\ history[i].category \notin Range(history[j].prompt.listed)

\* C16: for every result the categorizer can return, the path copy_ebook
\* writes to lies inside output_dir, in the directory
\* output_dir/<registered category>, with the filename as a single path
\* component; a category that begins with "/" or holds ".." segments, or a
\* filename_format that holds "/", never moves the copy outside it.
CopyStaysInside_C16 ==
    \A i \in Handlings :
        history[i].ev = "copied" =>
            LET e == history[i]
                dir == normpath(output_dir \o <<"/">> \o e.category)
                written == normpath(e.new_path)
            IN /\ ~written.abs
               /\ ~dir.abs
               /\ dir.segs # <<>> /\ dir.segs[1] = output_dir
               /\ Len(written.segs) = Len(dir.segs) + 1
               /\ SubSeq(written.segs, 1, Len(dir.segs)) = dir.segs

=============================================================================
